---- MODULE Spec2Model ----
(***************************************************************************)
(* A model of app/parse.py: a sequential scraper that visits six category  *)
(* pages, clicks a "load more" control until enough product cards are      *)
(* rendered, parses every rendered card into a Product and writes one CSV  *)
(* file per category.                                                      *)
(*                                                                         *)
(* Text is a sequence of one-character strings.  A float is the decimal    *)
(* its shortest repr denotes, kept normalised as [num, exp] = num/10^exp   *)
(* (no trailing zero in the fraction), so two floats are equal exactly     *)
(* when their records are equal.                                           *)
(***************************************************************************)
EXTENDS Integers, Sequences, FiniteSets, TLC

(***************************************************************************)
(* Bounds of the model.                                                    *)
(***************************************************************************)
\* most cards a category page renders before any click (orchestrator runs)
MaxFirst == 5
\* cards one "load more" activation renders (orchestrator runs)
Batch == 9
\* the saturation point of the click counter
ClickCap == 8
\* harness runs of parse_product_card: largest target, page size, batch
MaxTarget == 5
MaxTotal == 6
MaxBatch == 3
\* harness runs of get_product: prices are num/10^exp, num <= MaxNum, exp <= MaxFrac
MaxNum == 130
MaxFrac == 2
\* harness runs of get_product: largest review count
MaxReviews == 12

(***************************************************************************)
(* Text helpers: what str.replace, str.split, int(), float() and str() do  *)
(* on the characters the model uses.                                       *)
(***************************************************************************)
Digits == <<"0", "1", "2", "3", "4", "5", "6", "7", "8", "9">>

IsDigit(c) == \E i \in 1..10 : Digits[i] = c

DigitVal(c) == (CHOOSE i \in 1..10 : Digits[i] = c) - 1

RECURSIVE Pow10(_)
Pow10(n) == IF n = 0 THEN 1 ELSE 10 * Pow10(n - 1)

\* the value of a string of decimal digits (0 for the empty string)
RECURSIVE DigitsVal(_)
DigitsVal(s) ==
  IF s = <<>> THEN 0
  ELSE 10 * DigitsVal(SubSeq(s, 1, Len(s) - 1)) + DigitVal(s[Len(s)])

\* str(n) of a non-negative int
RECURSIVE IntStr(_)
IntStr(n) ==
  IF n < 10 THEN <<Digits[n + 1]>>
  ELSE IntStr(n \div 10) \o <<Digits[(n % 10) + 1]>>

\* n as exactly w digits, zero-padded on the left
RECURSIVE Padded(_, _)
Padded(n, w) ==
  IF w = 0 THEN <<>>
  ELSE Padded(n \div 10, w - 1) \o <<Digits[(n % 10) + 1]>>

\* text.replace("$", ""): every "$" is removed, wherever it stands
StripDollar(s) == SelectSeq(s, LAMBDA c : c # "$")

\* the index of the first c in s, or Len(s) + 1
RECURSIVE IndexOf(_, _, _)
IndexOf(s, c, i) ==
  IF i > Len(s) THEN Len(s) + 1
  ELSE IF s[i] = c THEN i
  ELSE IndexOf(s, c, i + 1)

\* text.split(" ")[0]: what precedes the first space (all of it without one)
FirstToken(s) == SubSeq(s, 1, IndexOf(s, " ", 1) - 1)

\* a float, normalised: the fraction carries no trailing zero
RECURSIVE Normalize(_, _)
Normalize(n, e) ==
  IF e > 0 /\ n % 10 = 0 THEN Normalize(n \div 10, e - 1)
  ELSE [num |-> n, exp |-> e]

\* int(text): a non-empty run of digits, else ValueError
ParseInt(s) ==
  IF s # <<>> /\ \A i \in 1..Len(s) : IsDigit(s[i])
  THEN [ok |-> TRUE, val |-> DigitsVal(s)]
  ELSE [ok |-> FALSE, val |-> 0]

\* float(text): digits with at most one "." and at least one digit, else
\* ValueError; a thousands separator is not part of the grammar
ParseFloat(s) ==
  LET dot == IndexOf(s, ".", 1)
      ip == SubSeq(s, 1, dot - 1)
      fp == SubSeq(s, dot + 1, Len(s))
      wellFormed ==
        /\ \A i \in 1..Len(ip) : IsDigit(ip[i])
        /\ \A i \in 1..Len(fp) : IsDigit(fp[i])
        /\ Len(ip) + Len(fp) > 0
  IN IF wellFormed
     THEN [ok |-> TRUE,
           val |-> Normalize(DigitsVal(ip) * Pow10(Len(fp)) + DigitsVal(fp), Len(fp))]
     ELSE [ok |-> FALSE, val |-> Normalize(0, 0)]

\* str(x) of a float in the range repr prints positionally
FloatStr(x) ==
  LET p == Pow10(x.exp)
  IN IntStr(x.num \div p) \o <<".">> \o
     (IF x.exp = 0 THEN <<"0">> ELSE Padded(x.num % p, x.exp))


(***************************************************************************)
(* Product and get_product.                                                *)
(***************************************************************************)
\* the dataclass fields, in declaration order
Fields == <<"title", "description", "price", "rating", "num_of_reviews">>

\* the sub-elements get_product looks up with find_element
SubElements == {"title", "description", "price", "ratings"}

\* float(price_text.replace("$", "")) with int() in place of float()
PriceOfTextAsInt(t) ==
  LET r == ParseInt(StripDollar(t))
  IN [ok |-> r.ok, val |-> Normalize(r.val, 0)]

\* float(price_text.replace("$", ""))
PriceOfText(t) == ParseFloat(StripDollar(t))

\* int(ratings_text.split(" ")[0])
ReviewsOfText(t) == ParseInt(FirstToken(t))

\* get_product: the Product, or not ok when it raises: find_element raises
\* when a sub-element is absent, float() and int() on a malformed numeral
get_product(card) ==
  LET price == PriceOfText(card.price)
      reviews == ReviewsOfText(card.ratings)
      product == [title |-> card.title,
                  description |-> card.description,
                  price |-> price.val,
                  rating |-> card.stars,
                  num_of_reviews |-> reviews.val]
  IN [ok |-> (SubElements \subseteq card.present) /\ price.ok /\ reviews.ok,
      product |-> product]

(***************************************************************************)
(* The pages the browser shows: the cards of a category in visual order.   *)
(***************************************************************************)
ReviewsSuffix == <<" ", "r", "e", "v", "i", "e", "w", "s">>

\* a well-formed card with the given numbers
MakeCard(i, price, stars, reviews) ==
  [present |-> SubElements,
   title |-> <<"T">> \o IntStr(i),
   description |-> IF i % 3 = 0 THEN <<>> ELSE <<"D">> \o IntStr(i),
   price |-> <<"$">> \o FloatStr(price),
   stars |-> stars,
   ratings |-> IntStr(reviews) \o ReviewsSuffix]

\* the i-th card of a catalogue
GoodCard(i) == MakeCard(i, Normalize(25 * i, 2), i % 6, (7 * i) % (MaxReviews + 1))

CommaPrice == <<"$", "1", ",", "2", "9", "9", ".", "9", "9">>
PlainPrice == <<"$", "1", "2", "9", "9", ".", "9", "9">>

\* a card get_product cannot parse
BadCard(i, kind) ==
  CASE kind = "missing" -> [GoodCard(i) EXCEPT !.present = SubElements \ {"price"}]
    [] kind = "comma" -> [GoodCard(i) EXCEPT !.price = CommaPrice]
    [] OTHER -> [GoodCard(i) EXCEPT !.ratings = <<"n", "o">> \o ReviewsSuffix]

BadChoices ==
  {[at |-> 0, kind |-> "none"], [at |-> 1, kind |-> "missing"],
   [at |-> 2, kind |-> "comma"], [at |-> 2, kind |-> "reviews"]}

Catalogue(total, bad) ==
  [i \in 1..total |-> IF i = bad.at THEN BadCard(i, bad.kind) ELSE GoodCard(i)]

Modes == {"batch", "stall", "any"}

Min(a, b) == IF a < b THEN a ELSE b
Max(a, b) == IF a > b THEN a ELSE b


(***************************************************************************)
(* The state.                                                              *)
(***************************************************************************)
VARIABLES
  pc,        \* where the script stands
  cat,       \* the index in Steps of the category being processed (0: none)
  max_products,  \* the argument of the running parse_product_card call
  cards,     \* every card of the loaded page, rendered or not, in visual order
  shown,     \* how many of them are rendered (class "thumbnail")
  more,      \* whether the "load more" control can be located
  mode,      \* how the page answers a click on the control
  batch,     \* how many cards one activation renders
  first,     \* how many cards the page rendered when it was loaded
  clicks,    \* clicks on the control in the running call, saturating at ClickCap
  lastObs,   \* the count the loop test last observed (-1: none yet)
  products,  \* the list parse_product_card returned, until it is written
  files,     \* the CSV files in the working directory
  fault,     \* the step whose uncaught exception ended the run, or "none"
  events,    \* the navigation clicks, harvests and writes completed so far
  harvests,  \* the lists parse_product_card returned so far, one per category
  stale      \* whether the output files existed before the run

vars == <<pc, cat, max_products, cards, shown, more, mode, batch, first, clicks,
          lastObs, products, files, fault, events, harvests, stale>>

pageVars == <<cards, shown, more, mode, batch, first>>

\* max_products when the caller gives none
DefaultMax == 3

\* the steps with Laptops and Tablets exchanged
StepsSwapped ==
  << [link |-> "", max |-> 3, file |-> "home.csv"],
     [link |-> "Computers", max |-> 3, file |-> "computers.csv"],
     [link |-> "Tablets", max |-> 21, file |-> "tablets.csv"],
     [link |-> "Laptops", max |-> 117, file |-> "laptops.csv"],
     [link |-> "Phones", max |-> 3, file |-> "phones.csv"],
     [link |-> "Touch", max |-> 9, file |-> "touch.csv"] >>

\* get_all_products: the link clicked (none for the start page), max_products
\* and the file written, step by step
Steps ==
  << [link |-> "", max |-> DefaultMax, file |-> "home.csv"],
     [link |-> "Computers", max |-> DefaultMax, file |-> "computers.csv"],
     [link |-> "Laptops", max |-> 117, file |-> "laptops.csv"],
     [link |-> "Tablets", max |-> 21, file |-> "tablets.csv"],
     [link |-> "Phones", max |-> DefaultMax, file |-> "phones.csv"],
     [link |-> "Touch", max |-> 9, file |-> "touch.csv"] >>

FileNames == {Steps[k].file : k \in 1..Len(Steps)}

\* what a file left by an earlier run holds
StaleFile == [exists |-> TRUE, rows |-> << <<"stale">> >>]
NoFile == [exists |-> FALSE, rows |-> <<>>]

InitialFile == IF stale THEN StaleFile ELSE NoFile

\* a failed write is caught and the run goes on
Swallowed(at) ==
  IF at = "write" THEN (IF cat < 6 THEN "navigate" ELSE "done") ELSE "aborted"

\* a failed harvest is caught and the run goes on with what it has
ContinueAfterHarvest(at) == IF at = "collect" THEN "returned" ELSE "aborted"

\* where an exception raised at step `at` leaves the script: get_all_products
\* has no try/except, so nobody catches it and the run ends there
Uncaught(at) == "aborted"

\* the pages a category of at least `f` first cards may show the orchestrator
SitePages(f, t) ==
  { [cards |-> Catalogue(total, bad), mode |-> m,
     more |-> IF m = "stall" THEN TRUE ELSE f < total]
    : total \in {f, Max(f, t)}, m \in {"batch", "stall"}, bad \in BadChoices }

\* the browser has loaded page p
LoadPage(p, f, b) ==
  /\ cards' = p.cards
  /\ shown' = f
  /\ more' = p.more
  /\ mode' = p.mode
  /\ batch' = b
  /\ first' = f

Init ==
  /\ pc = "start"
  /\ cat = 1
  /\ max_products = 0
  /\ cards = <<>>
  /\ shown = 0
  /\ more = FALSE
  /\ mode = "batch"
  /\ batch = Batch
  /\ first \in {0, MaxFirst}
  /\ clicks = 0
  /\ lastObs = -1
  /\ products = <<>>
  /\ stale \in BOOLEAN
  /\ files = [f \in FileNames |-> IF stale THEN StaleFile ELSE NoFile]
  /\ fault = "none"
  /\ events = <<>>
  /\ harvests = <<>>

(***************************************************************************)
(* parse_product_card and execute_more_pagination_script.                  *)
(***************************************************************************)
\* the while condition with an iteration cap
NeedMoreCapped(count, limit) == count < limit /\ clicks < 2

\* the while condition off by one
NeedMoreInclusive(count, limit) == count <= limit

\* the while condition: len(find_elements("thumbnail")) < max_products
NeedMore(count, limit) == count < limit

\* a do-while entry: locate and click before the first test
FirstStepClicking(limit) == "find_more"

\* `if max_products:` - the loop is entered only for a truthy target
FirstStep(limit) == IF limit # 0 THEN "loop_test" ELSE "collect"

\* find_elements("thumbnail") cut to the first max_products
RenderedCardsCut == SubSeq(cards, 1, Min(shown, max_products))

\* driver.find_elements(By.CLASS_NAME, "thumbnail"): the rendered cards
RenderedCards == SubSeq(cards, 1, shown)

\* parse_product_card is entered
Enter ==
  /\ pc = "call"
  /\ clicks' = 0
  /\ lastObs' = -1
  /\ pc' = FirstStep(max_products)
  /\ UNCHANGED <<cat, max_products, pageVars, products, files, fault, events,
                 harvests, stale>>

\* the loop test of execute_more_pagination_script
LoopTest ==
  /\ pc = "loop_test"
  /\ lastObs' = shown
  /\ pc' = IF NeedMore(shown, max_products) THEN "find_more" ELSE "collect"
  /\ UNCHANGED <<cat, max_products, pageVars, clicks, products, files, fault, events,
                 harvests, stale>>

\* find_element("ecomerce-items-scroll-more"); NoSuchElementException breaks
FindMore ==
  /\ pc = "find_more"
  /\ pc' = IF more THEN "click_more" ELSE "collect"
  /\ UNCHANGED <<cat, max_products, pageVars, clicks, lastObs, products, files, fault,
                 events, harvests, stale>>

\* what a click may leave rendered, and whether the control is still there
ClickOutcomes ==
  LET grown == Min(shown + batch, Len(cards))
  IN CASE mode = "batch" -> {[shown |-> grown, more |-> grown < Len(cards)]}
       [] mode = "stall" -> {[shown |-> shown, more |-> TRUE]}
       [] OTHER -> [shown : {shown, grown}, more : BOOLEAN]

\* execute_script("arguments[0].click();", button_more)
ClickMore ==
  /\ pc = "click_more"
  /\ \E o \in ClickOutcomes :
       /\ shown' = o.shown
       /\ more' = o.more
  /\ clicks' = Min(clicks + 1, ClickCap)
  /\ pc' = "loop_test"
  /\ UNCHANGED <<cat, max_products, cards, mode, batch, first, lastObs, products,
                 files, fault, events, harvests, stale>>

\* [get_product(card) for card in find_elements("thumbnail")]: the first card
\* that fails to parse raises, and nothing is returned
Collect ==
  /\ pc = "collect"
  /\ LET found == RenderedCards
         parsed == [i \in 1..Len(found) |-> get_product(found[i])]
         bad == {i \in 1..Len(found) : ~parsed[i].ok}
     IN IF bad = {}
        THEN /\ products' = [i \in 1..Len(found) |-> parsed[i].product]
             /\ harvests' = Append(harvests, products')
             /\ events' = Append(events, [op |-> "harvest", name |-> "",
                                          max |-> max_products])
             /\ pc' = "returned"
             /\ fault' = fault
        ELSE /\ pc' = Uncaught("collect")
             /\ fault' = "collect"
             /\ UNCHANGED <<products, harvests, events>>
  /\ UNCHANGED <<cat, max_products, pageVars, clicks, lastObs, files, stale>>


(***************************************************************************)
(* write_to_csv.                                                           *)
(***************************************************************************)
\* str() of one field of a product, as csv.DictWriter writes it
CsvCell(p, f) ==
  CASE f = "price" -> FloatStr(p[f])
    [] f \in {"rating", "num_of_reviews"} -> IntStr(p[f])
    [] OTHER -> p[f]

\* headers = [field.name for field in fields(Product)]
headers == Fields

\* writer.writerow(asdict(obj)): the cells in header order
CsvRow(p) == [j \in 1..Len(headers) |-> CsvCell(p, headers[j])]

\* open(filename, "a"): the old rows stay
OpenForAppend(old) == old.rows

\* open(filename, "w"): the file is created or truncated
OpenForWrite(old) == <<>>

\* what write_to_csv leaves in the file when nothing fails
CsvFile(old, ps) ==
  OpenForWrite(old) \o <<headers>> \o [i \in 1..Len(ps) |-> CsvRow(ps[i])]

\* the script's next step after a write
AfterWrite == IF cat < Len(Steps) THEN "navigate" ELSE "done"

\* write_to_csv(products, Steps[cat].file); an I/O failure raises before the
\* file is opened, or after any number of rows
write_to_csv ==
  /\ pc = "returned"
  /\ LET f == Steps[cat].file
         full == CsvFile(files[f], products)
     IN \/ /\ files' = [files EXCEPT ![f] = [exists |-> TRUE, rows |-> full]]
           /\ products' = <<>>
           /\ events' = Append(events, [op |-> "write", name |-> f, max |-> 0])
           /\ pc' = AfterWrite
           /\ fault' = fault
        \/ /\ files' = files
           /\ pc' = Uncaught("write")
           /\ fault' = "write"
           /\ UNCHANGED <<products, events>>
        \/ /\ \E n \in 0..(Len(full) - 1) :
                files' = [files EXCEPT
                            ![f] = [exists |-> TRUE, rows |-> SubSeq(full, 1, n)]]
           /\ pc' = Uncaught("write")
           /\ fault' = "write"
           /\ UNCHANGED <<products, events>>
  /\ UNCHANGED <<cat, max_products, pageVars, clicks, lastObs, harvests, stale>>

(***************************************************************************)
(* get_all_products.                                                       *)
(***************************************************************************)
\* init_driver() and driver.get(HOME_URL): the start page is loaded, or the
\* browser fails to start
Start ==
  /\ pc = "start"
  /\ \/ /\ \E p \in SitePages(first, Steps[1].max) : LoadPage(p, first, Batch)
        /\ max_products' = Steps[1].max
        /\ pc' = "call"
        /\ fault' = fault
     \/ /\ pc' = Uncaught("start")
        /\ fault' = "start"
        /\ UNCHANGED <<max_products, pageVars>>
  /\ UNCHANGED <<cat, clicks, lastObs, products, files, events, harvests, stale>>

\* driver.find_element(By.LINK_TEXT, link).click(): the next category's page
\* is loaded, or the link is not found
Navigate ==
  /\ pc = "navigate"
  /\ cat < Len(Steps)
  /\ \/ /\ \E p \in SitePages(first, Steps[cat + 1].max) : LoadPage(p, first, Batch)
        /\ cat' = cat + 1
        /\ max_products' = Steps[cat + 1].max
        /\ events' = Append(events, [op |-> "navigate", name |-> Steps[cat + 1].link,
                                     max |-> 0])
        /\ pc' = "call"
        /\ fault' = fault
     \/ /\ pc' = Uncaught("navigate")
        /\ fault' = "navigate"
        /\ UNCHANGED <<cat, max_products, pageVars, events>>
  /\ UNCHANGED <<clicks, lastObs, products, files, harvests, stale>>

Next ==
  \/ Start
  \/ Enter
  \/ LoopTest
  \/ FindMore
  \/ ClickMore
  \/ Collect
  \/ write_to_csv
  \/ Navigate

\* a run of the script
Spec == Init /\ [][Next]_vars

(***************************************************************************)
(* parse_product_card on its own, for any target and any page.             *)
(***************************************************************************)
HarvestPages ==
  { [cards |-> Catalogue(total, bad), first |-> f, batch |-> b, mode |-> m,
     more |-> mr]
    : total \in 0..MaxTotal, f \in 0..MaxTotal, b \in 1..MaxBatch, m \in Modes,
      mr \in BOOLEAN,
      bad \in {[at |-> 0, kind |-> "none"], [at |-> 2, kind |-> "reviews"]} }

HarvestInit ==
  /\ pc = "call"
  /\ cat = 0
  /\ max_products \in 0..MaxTarget
  /\ \E p \in HarvestPages :
       /\ p.first <= Len(p.cards)
       /\ p.mode = "batch" => p.more = (p.first < Len(p.cards))
       /\ p.mode = "stall" => p.more
       /\ cards = p.cards
       /\ shown = p.first
       /\ first = p.first
       /\ more = p.more
       /\ mode = p.mode
       /\ batch = p.batch
  /\ clicks = 0
  /\ lastObs = -1
  /\ products = <<>>
  /\ stale = FALSE
  /\ files = [f \in FileNames |-> NoFile]
  /\ fault = "none"
  /\ events = <<>>
  /\ harvests = <<>>

HarvestNext ==
  \/ Enter
  \/ LoopTest
  \/ FindMore
  \/ ClickMore
  \/ Collect

HarvestSpec == HarvestInit /\ [][HarvestNext]_vars

\* the pagination loop on its own: pages of well-formed cards that render a
\* fixed batch per click or never render more
LoopInit ==
  /\ HarvestInit
  /\ mode \in {"batch", "stall"}
  /\ \A i \in 1..Len(cards) : cards[i] = GoodCard(i)

\* the script is sequential and blocking: it takes its next step whenever it
\* has one
FairLoopSpec == LoopInit /\ [][HarvestNext]_vars /\ WF_vars(HarvestNext)

(***************************************************************************)
(* get_product on its own: a page of one card, harvested with target 0.    *)
(***************************************************************************)
\* the prices num/10^exp of the harness
PriceInputs == {Normalize(n, e) : n \in 0..MaxNum, e \in 0..MaxFrac}

CardInputs ==
  {MakeCard(1, d, r % 6, r) : d \in PriceInputs, r \in {0, 7, MaxReviews}}
  \cup {[MakeCard(1, Normalize(0, 0), 5, 7) EXCEPT !.price = t]
          : t \in {CommaPrice, PlainPrice}}

CardInit ==
  /\ pc = "call"
  /\ cat = 0
  /\ max_products = 0
  /\ \E c \in CardInputs : cards = <<c>>
  /\ shown = 1
  /\ first = 1
  /\ more = FALSE
  /\ mode = "batch"
  /\ batch = 1
  /\ clicks = 0
  /\ lastObs = -1
  /\ products = <<>>
  /\ stale = FALSE
  /\ files = [f \in FileNames |-> NoFile]
  /\ fault = "none"
  /\ events = <<>>
  /\ harvests = <<>>

CardNext ==
  \/ Enter
  \/ Collect

CardSpec == CardInit /\ [][CardNext]_vars


(***************************************************************************)
(* Properties.                                                             *)
(***************************************************************************)
InLoop == pc \in {"loop_test", "find_more", "click_more"}

AfterLoop == pc \in {"collect", "returned", "aborted"}

\* how many events of kind op the run has completed
Count(op) == Cardinality({i \in 1..Len(events) : events[i].op = op})

NavClicks == Count("navigate")

\* C1: for a target N >= 1, the control is clicked only right after the loop
\* test observed a count below N; the loop is left as soon as the test
\* observes a count of at least N, and it is left normally, with no click,
\* the first time the control cannot be located; once left it is not resumed
C1_PaginationLoop ==
  [][ max_products >= 1 =>
        /\ (pc = "click_more" => lastObs = shown /\ lastObs < max_products)
        /\ (pc = "loop_test" /\ shown >= max_products =>
              pc' = "collect" /\ clicks' = clicks /\ fault' = "none")
        /\ (pc = "find_more" /\ ~more =>
              /\ lastObs < max_products
              /\ pc' = "collect" /\ clicks' = clicks /\ fault' = "none")
        /\ (clicks' # clicks \/ shown' # shown => pc = "click_more")
        /\ (AfterLoop => ~InLoop') ]_vars

\* C1 witness: the control disappeared below the target after a click, and the
\* loop was left normally
C1_Witness ==
  /\ pc = "collect"
  /\ max_products >= 1
  /\ clicks >= 1
  /\ shown < max_products
  /\ ~more
  /\ fault = "none"

\* C2 as stated: a harvest or a write that failed does not keep any of the
\* five navigation clicks from happening
C2_Original == fault \in {"collect", "write"} => NavClicks = 5

\* C2 amended: a navigation click happens only after the harvest and the write
\* of every category before it succeeded; a failure ends the run where it is
\* raised; a run without failure makes all five clicks
C2_ClicksFollowSuccess ==
  /\ NavClicks <= Count("write")
  /\ Count("write") <= Count("harvest")
  /\ NavClicks = cat - 1
  /\ (fault # "none" => pc = "aborted")
  /\ (pc = "done" => NavClicks = 5)

\* C2 witness: the write of the third category failed after two clicks
C2_Witness ==
  /\ pc = "aborted"
  /\ fault = "write"
  /\ cat = 3
  /\ NavClicks = 2

\* the file of category j holds the header and one row per harvested record
FileComplete(j) ==
  LET f == files[Steps[j].file]
      h == harvests[j]
  IN /\ f.exists
     /\ Len(f.rows) = Len(h) + 1
     /\ f.rows[1] = <<"title", "description", "price", "rating", "num_of_reviews">>
     /\ \A i \in 1..Len(h) :
          f.rows[i + 1] = <<h[i].title, h[i].description, FloatStr(h[i].price),
                            IntStr(h[i].rating), IntStr(h[i].num_of_reviews)>>

\* C3: an uncaught failure ends the run where it is raised; the files of the
\* categories processed before it are complete, the files of the later ones
\* are as they were before the run, and a card that fails to parse yields no
\* list at all for its category
C3_PartialOutput ==
  fault # "none" =>
    /\ pc = "aborted"
    /\ \A j \in 1..Len(Steps) :
         /\ (j < cat \/ (j = cat /\ fault = "navigate")) => FileComplete(j)
         /\ (j > cat \/ (j = cat /\ fault \in {"start", "collect"})) =>
              files[Steps[j].file] = InitialFile
    /\ (fault = "collect" => Len(harvests) = cat - 1 /\ Count("harvest") = cat - 1)

\* C3 witness: a card of the third category failed to parse; the first two
\* files are written over the stale ones, the third is still the stale one
C3_Witness ==
  /\ pc = "aborted"
  /\ fault = "collect"
  /\ cat = 3
  /\ stale
  /\ Len(files["home.csv"].rows) > 1
  /\ files["home.csv"].rows[1] = Fields
  /\ files["laptops.csv"] = StaleFile

Ev(op, name, max) == [op |-> op, name |-> name, max |-> max]

ExpectedEvents ==
  << Ev("harvest", "", 3), Ev("write", "home.csv", 0),
     Ev("navigate", "Computers", 0), Ev("harvest", "", 3), Ev("write", "computers.csv", 0),
     Ev("navigate", "Laptops", 0), Ev("harvest", "", 117), Ev("write", "laptops.csv", 0),
     Ev("navigate", "Tablets", 0), Ev("harvest", "", 21), Ev("write", "tablets.csv", 0),
     Ev("navigate", "Phones", 0), Ev("harvest", "", 3), Ev("write", "phones.csv", 0),
     Ev("navigate", "Touch", 0), Ev("harvest", "", 9), Ev("write", "touch.csv", 0) >>

\* C4: the run navigates, harvests and writes in the fixed order of the six
\* categories with targets 3, 3, 117, 21, 3, 9: what it has done is always a
\* prefix of that order, and a run without failure has done all of it, each
\* file written once
C4_FixedOrder ==
  /\ Len(events) <= Len(ExpectedEvents)
  /\ events = SubSeq(ExpectedEvents, 1, Len(events))
  /\ (pc = "done" => events = ExpectedEvents)
  /\ (pc = "done" => \A k \in 1..Len(Steps) : FileComplete(k))

\* C4 witness: a run without failure that harvested 117 laptops
C4_Witness ==
  /\ pc = "done"
  /\ fault = "none"
  /\ Len(files["laptops.csv"].rows) = 118
  /\ Len(files["touch.csv"].rows) = 10

\* the loop is running below its target
LoopBelow == InLoop /\ shown < max_products

\* the page never renders more and keeps the control
StallCase == mode = "stall" /\ more /\ LoopBelow

\* C5: while the control stays locatable and the count stays where it is,
\* below the target, no step leaves the loop; on a page that always behaves so
\* the loop is never left and clicks again and again
C5_StalledLoopNeverEnds ==
  /\ [][LoopBelow /\ more /\ more' /\ shown' = shown => LoopBelow']_vars
  /\ [][StallCase => StallCase']_vars
  /\ (StallCase ~> (StallCase /\ pc = "click_more"))

\* C5 witness: a stalled loop that has clicked up to the counter's cap
C5_Witness ==
  /\ StallCase
  /\ clicks = ClickCap
  /\ pc = "click_more"

\* the least number of activations of b cards each that bring f cards to t
MinClicks(f, b, t) ==
  CHOOSE n \in 0..ClickCap :
    /\ f + n * b >= t
    /\ \A m \in 0..(n - 1) : f + m * b < t

\* C6: on a page that renders a fixed batch per activation and holds at least
\* the target, the loop clicks exactly the least number of times that brings
\* the count to the target, and every rendered card is then parsed
C6_MinimumClicks ==
  (mode = "batch" /\ Len(cards) >= max_products /\ AfterLoop) =>
    /\ clicks = MinClicks(first, batch, max_products)
    /\ shown >= max_products
    /\ (pc = "returned" => Len(products) = shown)

\* C6 witness: nothing rendered at first, 2 cards per click, target 5: 3 clicks
C6_Witness ==
  /\ mode = "batch"
  /\ pc = "returned"
  /\ first = 0
  /\ batch = 2
  /\ max_products = 5
  /\ clicks = 3
  /\ Len(products) = 6

C8_ZeroTarget ==
  max_products = 0 =>
    /\ clicks = 0
    /\ pc # "click_more"
    /\ shown = first
    /\ (pc = "returned" => Len(products) = first)

\* C8 witness: target 0 on a page whose control is present
C8_Witness ==
  /\ max_products = 0
  /\ pc = "returned"
  /\ more
  /\ first >= 1
  /\ Len(cards) > first
  /\ Len(products) = first

\* C9: a write that succeeds leaves in the file exactly the header row and
\* one row per record, in list order, each with the record's five fields in
\* declaration order, whatever the file held before
C9_CsvContents ==
  [][ (pc = "returned" /\ pc' \in {"navigate", "done"}) =>
        LET f == files'[Steps[cat].file]
        IN /\ f.exists
           /\ Len(f.rows) = Len(products) + 1
           /\ f.rows[1] = <<"title", "description", "price", "rating",
                            "num_of_reviews">>
           /\ \A i \in 1..Len(products) :
                f.rows[i + 1] = <<products[i].title, products[i].description,
                                  FloatStr(products[i].price),
                                  IntStr(products[i].rating),
                                  IntStr(products[i].num_of_reviews)>> ]_vars

\* C9 witness: tablets.csv existed before the run and now holds 21 records
C9_Witness ==
  /\ stale
  /\ files["tablets.csv"].exists
  /\ Len(files["tablets.csv"].rows) = 22
  /\ files["tablets.csv"].rows[1] = Fields
  /\ files["tablets.csv"].rows[22][1] = <<"T", "2", "1">>

\* C10 as stated: "$1,299.99" parses to 1299.99, and "$" + str(d) parses to d
C10_Original ==
  AfterLoop /\ pc # "collect" =>
    /\ (cards[1].price = CommaPrice =>
          pc = "returned" /\ products[1].price = [num |-> 129999, exp |-> 2])
    /\ \A d \in PriceInputs :
         cards[1].price = <<"$">> \o FloatStr(d) =>
           pc = "returned" /\ products[1].price = d

\* C10 amended: "$1299.99" parses to 1299.99 and "$" + str(d) parses to d;
\* "$1,299.99", with a thousands separator, is a malformed numeral: the parse
\* raises and the run ends
C10_PriceParsing ==
  AfterLoop /\ pc # "collect" =>
    /\ (cards[1].price = CommaPrice => pc = "aborted" /\ fault = "collect")
    /\ (cards[1].price = PlainPrice =>
          pc = "returned" /\ products[1].price = [num |-> 129999, exp |-> 2])
    /\ \A d \in PriceInputs :
         cards[1].price = <<"$">> \o FloatStr(d) =>
           pc = "returned" /\ products[1].price = d

\* C10 witness: "$0.05" parsed to 5/100
C10_Witness ==
  /\ pc = "returned"
  /\ cards[1].price = <<"$", "0", ".", "0", "5">>
  /\ products[1].price = [num |-> 5, exp |-> 2]

====
